---- MODULE Spec2Model ----
(***************************************************************************)
(* Collector of the multi-PC monitoring dashboard: the Express routes of   *)
(* routes/systemData.js over the Mongoose model models/SystemInfo.js and   *)
(* the MongoDB collection behind it (documents, TTL index).                *)
(*                                                                         *)
(* Time is the server clock in milliseconds.  The numbers of a request     *)
(* body, of a document and of the overview are carried in hundredths       *)
(* (4520 is 45.2), the precision the agent sends and $round keeps.         *)
(***************************************************************************)
EXTENDS Integers, Sequences, FiniteSets, TLC

(* ------------------------------ bounds --------------------------------- *)
\* number of documents the clients create in one run
MaxDocs == 2
\* number of clock advances in one run
MaxTicks == 2
\* POST requests whose insert is on its way to the database at one time
MaxInflight == 2

(* ------------------------- program constants --------------------------- *)
\* hours * 60 * 60 * 1000
HourMs == 60 * 60 * 1000
\* expireAfterSeconds: 24 * 60 * 60, in milliseconds
ExpireAfterMs == 24 * 60 * 60 * 1000
\* getOverviewStats: Date.now() - 24 * 60 * 60 * 1000
OverviewWindowMs == 24 * 60 * 60 * 1000
\* const { hours = 24 } = req.query
DefaultHours == 24
\* hoursNum > 168
MaxHours == 168
\* cpu > 100, schema max: 100
MaxPercent == 100
\* the clock advances in steps of one retention window
TickMs == 24 * HourMs
\* { $round: ['$avgCpu', 2] }: two decimal places, hundredths per unit
Hundredths == 100
\* CONFIG of client.js, the defaults, in milliseconds
COLLECTION_INTERVAL == 60000
MAX_RETRIES == 3
RETRY_DELAY == 5000
MAX_OFFLINE_TIME == 300000
\* axios.post(..., { timeout: 40000 })
PostTimeout == 40000

(* --------------------------- JavaScript values ------------------------- *)
JsVal(k, n, s) == [k |-> k, n |-> n, s |-> s]
Undef == JsVal("undefined", 0, "")
Null == JsVal("null", 0, "")
Num(i) == JsVal("number", i, "")
Str(x) == JsVal("string", 0, x)
NaN == [nan |-> TRUE, n |-> 0]
Finite(i) == [nan |-> FALSE, n |-> i]

\* parseInt(s) on the strings that occur in requests: the integer a string
\* starts with, NaN when it starts with none
ParseIntStr(s) ==
  CASE s = "0" -> Finite(0)
    [] s = "1" -> Finite(1)
    [] s = "24" -> Finite(24)
    [] s = "50" -> Finite(50)
    [] s = "168" -> Finite(168)
    [] s = "169" -> Finite(169)
    [] s = "1e3" -> Finite(1)
    [] s = "1abc" -> Finite(1)
    [] OTHER -> NaN

\* Number(s) on the strings that occur in requests, in hundredths: blank
\* strings are 0, other strings that are not numerals are NaN
StrToNum(s) ==
  IF s = "" \/ s = "  " THEN Finite(0)
  ELSE IF s = "1e3" THEN Finite(1000 * Hundredths)
  ELSE IF s = "1abc" \/ ParseIntStr(s).nan THEN NaN
  ELSE Finite(ParseIntStr(s).n * Hundredths)

\* String.prototype.trim on the strings that occur in requests
Trim(s) == IF s = "  " THEN "" ELSE s

\* ToNumber, as applied by the relational operators
ToNumber(v) ==
  CASE v.k = "undefined" -> NaN
    [] v.k = "null" -> Finite(0)
    [] v.k = "number" -> Finite(v.n)
    [] v.k = "string" -> StrToNum(v.s)

\* !v is false
Truthy(v) ==
  CASE v.k = "undefined" -> FALSE
    [] v.k = "null" -> FALSE
    [] v.k = "number" -> v.n # 0
    [] v.k = "string" -> v.s # ""

\* v < c and v > c for an integer c: false when v converts to NaN
JsLt(v, c) == LET x == ToNumber(v) IN ~x.nan /\ x.n < c * Hundredths
JsGt(v, c) == LET x == ToNumber(v) IN ~x.nan /\ x.n > c * Hundredths

\* parseInt(hours) with the destructuring default
ParseHours(h) ==
  CASE h.k = "undefined" -> Finite(DefaultHours)
    [] h.k = "string" -> ParseIntStr(h.s)
    [] OTHER -> NaN

(* ------------------------- Mongoose schema ----------------------------- *)
\* Number path: cast. null and '' become null, a string is Number(string),
\* and a string that is not a number is a CastError.
castNumber(v) ==
  CASE v.k = "undefined" -> [err |-> FALSE, val |-> Null]
    [] v.k = "null" -> [err |-> FALSE, val |-> Null]
    [] v.k = "number" -> [err |-> FALSE, val |-> v]
    [] v.k = "string" ->
         IF v.s = "" THEN [err |-> FALSE, val |-> Null]
         ELSE IF StrToNum(v.s).nan THEN [err |-> TRUE, val |-> Null]
         ELSE [err |-> FALSE, val |-> Num(StrToNum(v.s).n)]

\* Number path: required, min, max
numberPathValid(v, hasMax) ==
  LET c == castNumber(v)
  IN /\ ~c.err
     /\ c.val.k = "number"
     /\ c.val.n >= 0
     /\ hasMax => c.val.n <= MaxPercent * Hundredths

\* String path: the trim setter, then required (a non-empty string)
stringPathValue(v, trim) ==
  IF v.k = "string" THEN Str(IF trim THEN Trim(v.s) ELSE v.s) ELSE Null

\* required checked on the value as sent, before the trim setter
stringPathValid_untrimmed(v, trim) == v.k = "string" /\ v.s # ""

stringPathValid(v, trim) ==
  LET c == stringPathValue(v, trim) IN c.k = "string" /\ c.s # ""

\* document.validate() of systemInfoSchema
schemaValid(b) ==
  /\ stringPathValid(b.pcId, TRUE)
  /\ numberPathValid(b.cpu, TRUE)
  /\ numberPathValid(b.ram, TRUE)
  /\ numberPathValid(b.disk, TRUE)
  /\ stringPathValid(b.os, FALSE)
  /\ numberPathValid(b.uptime, FALSE)

\* new SystemInfo(req.body): a createdAt of the body is kept by the timestamps
\* plugin
newSystemInfo_bodyCreatedAt(b, id, now) ==
  [id |-> id,
   pcId |-> stringPathValue(b.pcId, TRUE).s,
   cpu |-> castNumber(b.cpu).val.n,
   ram |-> castNumber(b.ram).val.n,
   disk |-> castNumber(b.disk).val.n,
   os |-> stringPathValue(b.os, FALSE).s,
   uptime |-> castNumber(b.uptime).val.n,
   createdAt |-> IF "createdAt" \in DOMAIN b THEN b.createdAt.n ELSE now]

\* the document new SystemInfo({...}) holds once it is valid; timestamps: true
\* stamps createdAt on save
newSystemInfo(b, id, now) ==
  [id |-> id,
   pcId |-> stringPathValue(b.pcId, TRUE).s,
   cpu |-> castNumber(b.cpu).val.n,
   ram |-> castNumber(b.ram).val.n,
   disk |-> castNumber(b.disk).val.n,
   os |-> stringPathValue(b.os, FALSE).s,
   uptime |-> castNumber(b.uptime).val.n,
   createdAt |-> now]

(* ------------------------- route validation ---------------------------- *)
\* !cpu, !ram, !disk, !uptime in place of the === undefined tests
missingFields_falsy(b) ==
  \/ ~Truthy(b.pcId)
  \/ ~Truthy(b.cpu)
  \/ ~Truthy(b.ram)
  \/ ~Truthy(b.disk)
  \/ ~Truthy(b.os)
  \/ ~Truthy(b.uptime)

\* !pcId || cpu === undefined || ... || !os || uptime === undefined
missingFields(b) ==
  \/ ~Truthy(b.pcId)
  \/ b.cpu.k = "undefined"
  \/ b.ram.k = "undefined"
  \/ b.disk.k = "undefined"
  \/ ~Truthy(b.os)
  \/ b.uptime.k = "undefined"

\* cpu <= 0 || cpu >= 100 || ...: the bounds themselves rejected
invalidRanges_exclusive(b) ==
  \/ ~JsGt(b.cpu, 0) \/ ~JsLt(b.cpu, MaxPercent)
  \/ ~JsGt(b.ram, 0) \/ ~JsLt(b.ram, MaxPercent)
  \/ ~JsGt(b.disk, 0) \/ ~JsLt(b.disk, MaxPercent)
  \/ JsLt(b.uptime, 0)

\* cpu < 0 || cpu > 100 || ram < 0 || ... || uptime < 0
invalidRanges(b) ==
  \/ JsLt(b.cpu, 0) \/ JsGt(b.cpu, MaxPercent)
  \/ JsLt(b.ram, 0) \/ JsGt(b.ram, MaxPercent)
  \/ JsLt(b.disk, 0) \/ JsGt(b.disk, MaxPercent)
  \/ JsLt(b.uptime, 0)

(* ----------------------------- helpers --------------------------------- *)
Range(q) == {q[i] : i \in 1..Len(q)}

RECURSIVE PermSeqs(_)
\* every order in which the server may return the documents of a set
PermSeqs(S) ==
  IF S = {} THEN {<<>>}
  ELSE UNION {{<<x>> \o q : q \in PermSeqs(S \ {x})} : x \in S}

RECURSIVE SumOf(_, _)
SumOf(S, f) ==
  IF S = {} THEN 0
  ELSE LET x == CHOOSE y \in S : TRUE IN x[f] + SumOf(S \ {x}, f)

\* $round of num / den to the nearest hundredth (num in hundredths), ties to
\* even
RoundHalfEven(num, den) ==
  LET q == num \div den
      r == num % den
  IN IF 2 * r < den THEN q
     ELSE IF 2 * r > den THEN q + 1
     ELSE IF q % 2 = 0 THEN q ELSE q + 1

(* --------------------- statics of the SystemInfo model ----------------- *)
\* $sort with createdAt: 1, the oldest document first in its group
FirstOfGroup_oldest(coll, p) ==
  {d \in Range(coll) : /\ d.pcId = p
                       /\ \A e \in Range(coll) : e.pcId = p => d.createdAt <= e.createdAt}

\* { $sort: { pcId: 1, createdAt: -1 } }, { $group: { _id: '$pcId',
\* latestData: { $first: '$$ROOT' } } }: the documents that can come first in
\* their group
FirstOfGroup(coll, p) ==
  {d \in Range(coll) : /\ d.pcId = p
                       /\ \A e \in Range(coll) : e.pcId = p => e.createdAt <= d.createdAt}

\* the pipeline with { $limit: 1 } at its end: the group that happens to come
\* first
getLatestData_limit1(coll) ==
  LET ids == {d.pcId : d \in Range(coll)}
  IN IF ids = {} THEN {<<>>}
     ELSE UNION {{<<d>> : d \in FirstOfGroup(coll, p)} : p \in ids}

\* $push in place of $first: every document that ties for the first place
getLatestData_everyTied(coll) ==
  LET ids == {d.pcId : d \in Range(coll)}
  IN PermSeqs(UNION {FirstOfGroup(coll, p) : p \in ids})

\* getLatestData(): one document per pcId; $group does not order its output
getLatestData(coll) ==
  LET ids == {d.pcId : d \in Range(coll)}
      picks == {f \in [ids -> Range(coll)] : \A p \in ids : f[p] \in FirstOfGroup(coll, p)}
  IN UNION {PermSeqs({f[p] : p \in ids}) : f \in picks}

\* find({ pcId }) without the createdAt condition
getHistoricalData_noCutoff(coll, pcId, hours, now) ==
  LET found == {d \in Range(coll) : d.pcId = pcId}
  IN {q \in PermSeqs(found) :
        \A i \in 1..(Len(q) - 1) : q[i].createdAt <= q[i + 1].createdAt}

\* sort({ createdAt: -1 })
getHistoricalData_descending(coll, pcId, hours, now) ==
  LET cutoff == now - hours * HourMs
      found == {d \in Range(coll) : d.pcId = pcId /\ d.createdAt >= cutoff}
  IN {q \in PermSeqs(found) :
        \A i \in 1..(Len(q) - 1) : q[i].createdAt >= q[i + 1].createdAt}

\* getHistoricalData(pcId, hours): find({ pcId, createdAt: { $gte: cutoff } })
\* .sort({ createdAt: 1 }); documents of equal createdAt come in any order
getHistoricalData(coll, pcId, hours, now) ==
  LET cutoff == now - hours * HourMs
      found == {d \in Range(coll) : d.pcId = pcId /\ d.createdAt >= cutoff}
  IN {q \in PermSeqs(found) :
        \A i \in 1..(Len(q) - 1) : q[i].createdAt <= q[i + 1].createdAt}

\* sort({ createdAt: 1 }): the oldest document of the machine
findOneLatest_oldest(coll, pcId) ==
  IF FirstOfGroup_oldest(coll, pcId) = {} THEN {<<>>}
  ELSE {<<d>> : d \in FirstOfGroup_oldest(coll, pcId)}

\* findOne({ pcId }) without the sort: any document of the machine
findOneLatest_unsorted(coll, pcId) ==
  IF FirstOfGroup(coll, pcId) = {} THEN {<<>>}
  ELSE {<<d>> : d \in {e \in Range(coll) : e.pcId = pcId}}

\* findOne({ pcId }).sort({ createdAt: -1 }): <<>> is null
findOneLatest(coll, pcId) ==
  IF FirstOfGroup(coll, pcId) = {} THEN {<<>>}
  ELSE {<<d>> : d \in FirstOfGroup(coll, pcId)}

NoOverview == [avgCpu |-> 0, avgRam |-> 0, avgDisk |-> 0, totalPCs |-> 0]

\* totalPCs: { $sum: 1 }, the number of documents in place of the machines
getOverviewStats_countDocs(coll, now) ==
  LET cutoff == now - OverviewWindowMs
      matched == {d \in Range(coll) : d.createdAt >= cutoff}
      n == Cardinality(matched)
  IN IF n = 0 THEN <<>>
     ELSE <<[avgCpu |-> RoundHalfEven(SumOf(matched, "cpu"), n),
             avgRam |-> RoundHalfEven(SumOf(matched, "ram"), n),
             avgDisk |-> RoundHalfEven(SumOf(matched, "disk"), n),
             totalPCs |-> n]>>

\* the pipeline without its $match stage
getOverviewStats_noMatch(coll, now) ==
  LET matched == Range(coll)
      n == Cardinality(matched)
  IN IF n = 0 THEN <<>>
     ELSE <<[avgCpu |-> RoundHalfEven(SumOf(matched, "cpu"), n),
             avgRam |-> RoundHalfEven(SumOf(matched, "ram"), n),
             avgDisk |-> RoundHalfEven(SumOf(matched, "disk"), n),
             totalPCs |-> Cardinality({d.pcId : d \in matched})]>>

\* pcs: { $push: '$pcId' } in place of $addToSet, avgDisk: { $avg: '$ram' }
getOverviewStats_push(coll, now) ==
  LET cutoff == now - OverviewWindowMs
      matched == {d \in Range(coll) : d.createdAt >= cutoff}
      n == Cardinality(matched)
  IN IF n = 0 THEN <<>>
     ELSE <<[avgCpu |-> RoundHalfEven(SumOf(matched, "cpu"), n),
             avgRam |-> RoundHalfEven(SumOf(matched, "ram"), n),
             avgDisk |-> RoundHalfEven(SumOf(matched, "ram"), n),
             totalPCs |-> n]>>

\* getOverviewStats(): the array the aggregation returns, empty when nothing
\* matches
getOverviewStats(coll, now) ==
  LET cutoff == now - OverviewWindowMs
      matched == {d \in Range(coll) : d.createdAt >= cutoff}
      n == Cardinality(matched)
  IN IF n = 0 THEN <<>>
     ELSE <<[avgCpu |-> RoundHalfEven(SumOf(matched, "cpu"), n),
             avgRam |-> RoundHalfEven(SumOf(matched, "ram"), n),
             avgDisk |-> RoundHalfEven(SumOf(matched, "disk"), n),
             totalPCs |-> Cardinality({d.pcId : d \in matched})]>>

\* the statics models/SystemInfo.js defines
SystemInfoStatics == {"getLatestData", "getHistoricalData", "getOverviewStats"}

\* a static that deletes with an empty filter
cleanupOldData_deleteAll(coll, hours, now) ==
  [threw |-> FALSE, coll |-> <<>>, deletedCount |-> Len(coll)]

\* SystemInfo.cleanupOldData(hoursNum): the model defines no such static, so
\* the call throws a TypeError before anything reaches the database
cleanupOldData(coll, hours, now) ==
  [threw |-> "cleanupOldData" \notin SystemInfoStatics, coll |-> coll, deletedCount |-> 0]

\* the collection without its TTL index
ttlExpired_noIndex(d, now) == FALSE

\* TTL index { createdAt: 1 }, expireAfterSeconds: the documents a pass of the
\* TTL monitor removes
ttlExpired(d, now) == d.createdAt + ExpireAfterMs <= now

(* ------------------------------ inputs --------------------------------- *)
Body(pcId, cpu, ram, disk, os, uptime) ==
  [pcId |-> pcId, cpu |-> cpu, ram |-> ram, disk |-> disk, os |-> os, uptime |-> uptime]

\* request bodies the collector accepts: the bounds 0 and 100, values with
\* two decimals, a numeral sent as a string
GoodBodies ==
  {Body(Str("pc1"), Num(4521), Num(0), Num(10000), Str("Linux"), Num(0)),
   Body(Str("pc2"), Str("50"), Num(6780), Num(2310), Str("Windows"), Num(6000))}

\* request bodies with one field missing, empty, out of range or not a number
BadBodies ==
  {Body(Undef, Num(5000), Num(2000), Num(7000), Str("Linux"), Num(6000)),
   Body(Str(""), Num(5000), Num(2000), Num(7000), Str("Linux"), Num(6000)),
   Body(Str("  "), Num(5000), Num(2000), Num(7000), Str("Linux"), Num(6000)),
   Body(Str("pc1"), Undef, Num(2000), Num(7000), Str("Linux"), Num(6000)),
   Body(Str("pc1"), Null, Num(2000), Num(7000), Str("Linux"), Num(6000)),
   Body(Str("pc1"), Str("abc"), Num(2000), Num(7000), Str("Linux"), Num(6000)),
   Body(Str("pc1"), Num(10001), Num(2000), Num(7000), Str("Linux"), Num(6000)),
   Body(Str("pc1"), Num(-1), Num(2000), Num(7000), Str("Linux"), Num(6000)),
   Body(Str("pc1"), Num(5000), Num(10100), Num(7000), Str("Linux"), Num(6000)),
   Body(Str("pc1"), Num(5000), Num(2000), Num(-100), Str("Linux"), Num(6000)),
   Body(Str("pc1"), Num(5000), Num(2000), Num(7000), Undef, Num(6000)),
   Body(Str("pc1"), Num(5000), Num(2000), Num(7000), Str(""), Num(6000)),
   Body(Str("pc1"), Num(5000), Num(2000), Num(7000), Str("Linux"), Undef),
   Body(Str("pc1"), Num(5000), Num(2000), Num(7000), Str("Linux"), Num(-100)),
   Body(Str("pc1"), Num(5000), Num(2000), Num(7000), Str("Linux"), Null),
   Body(Str("pc1"), Num(5000), Undef, Num(7000), Str("Linux"), Num(6000)),
   Body(Str("pc1"), Num(5000), Num(2000), Undef, Str("Linux"), Num(6000)),
   Body(Str("pc1"), Num(0), Num(0), Num(0), Str("Linux"), Num(-100))}

\* req.body with properties the handler does not destructure: a createdAt and
\* a timestamp twenty days in the future
ForgedBodies ==
  {[pcId |-> Str("pc1"), cpu |-> Num(4521), ram |-> Num(0), disk |-> Num(10000),
    os |-> Str("Linux"), uptime |-> Num(0),
    createdAt |-> Num(20 * 24 * HourMs), timestamp |-> Num(20 * 24 * HourMs)]}

Bodies == GoodBodies \cup BadBodies \cup ForgedBodies

\* the pcId query parameter: absent, or a machine that the store may or may
\* not know
PcIdParams == {Undef, Str("pc1")}

\* the hours query parameter
HoursParams ==
  {Undef, Str("1"), Str("168"), Str("0"), Str("169"), Str("abc"), Str("1e3"), Str("1abc")}

(* ------------------------ the agent, client.js ------------------------- *)
\* Time on the agent is kept as the program uses it: offlineTime is Date.now()
\* - lastSuccessfulSend, and each pending timer or request has the wait that
\* is left until it is due.  The objects getSystemInfo returns are named 1 and
\* 2 in turn: an object is referenced (by systemInfo, by the data of a call of
\* sendDataToServer) at most until the one after the next is collected.

\* a call of sendDataToServer: "posting" awaits the answer of attempt number
\* attempt, "delay" awaits the timer before the next attempt, "done" has
\* returned; last is the status of the latest answer, 0 when there was none
NoSend == [pc |-> "off", sample |-> 0, attempt |-> 0, wait |-> 0, last |-> 0]

\* what axios.post can end with: the 201 of the collector, its 400, and its
\* 500, which the catch block treats like a request without a response
Statuses == {201, 400, 500}

\* the time an answer takes: none, or the whole timeout
Durations == {0, PostTimeout}

\* the global state of client.js when the module is loaded; delivered counts,
\* for each of the two objects, the POSTs of it that were answered 201;
\* serverDown says that the collector will answer no further request
AgentInit ==
  [offlineTime |-> 0, isRunning |-> FALSE, retryCount |-> 0, systemInfo |-> 0,
   loop |-> [NoSend EXCEPT !.pc = "init"], final |-> NoSend,
   exited |-> FALSE, exitCode |-> 0,
   delivered |-> [i \in {1, 2} |-> 0], serverDown |-> FALSE]

\* getSystemInfo hands out the object it returned the last time
freshSample_stale(a) == IF a.systemInfo # 0 THEN a.systemInfo ELSE 1

\* the object a call of getSystemInfo returns: a new one each time
freshSample(a) == IF a.systemInfo = 1 THEN 2 ELSE 1

\* const delay = CONFIG.RETRY_DELAY
retryDelay_constant(attempt) == RETRY_DELAY

\* const delay = CONFIG.RETRY_DELAY * attempt
retryDelay(attempt) == RETRY_DELAY * attempt

\* axios.post(CONFIG.SERVER_URL, data, ...) of attempt number attempt, answered
\* after d
postIssued(t, sample, attempt, d) ==
  [t EXCEPT !.pc = "posting", !.sample = sample, !.attempt = attempt, !.wait = d]

\* a catch block that gives up on a 400
afterFailure_terminal400(t, st) ==
  IF t.attempt < MAX_RETRIES /\ st # 400
  THEN [t EXCEPT !.pc = "delay", !.wait = retryDelay(t.attempt), !.last = st]
  ELSE [t EXCEPT !.pc = "done", !.wait = 0, !.last = st]

\* the catch block of the retry loop: wait and go round again, or leave the
\* loop after the last attempt
afterFailure(t, st) ==
  IF t.attempt < MAX_RETRIES
  THEN [t EXCEPT !.pc = "delay", !.wait = retryDelay(t.attempt), !.last = st]
  ELSE [t EXCEPT !.pc = "done", !.wait = 0, !.last = st]

\* sendDataToServer from the answer of an attempt on: who is the caller,
\* "loop" for monitorSystem and "final" for gracefulShutdown
answered(a, who, st) ==
  IF st = 200 \/ st = 201
  THEN [a EXCEPT ![who] = [@ EXCEPT !.pc = "done", !.wait = 0, !.last = st],
                 !.retryCount = 0,
                 !.offlineTime = 0,
                 !.delivered = [@ EXCEPT ![a[who].sample] = @ + 1]]
  ELSE LET t == afterFailure(a[who], st)
       IN [a EXCEPT ![who] = t,
                    !.retryCount = IF t.pc = "done" THEN @ + 1 ELSE @]

\* the client gives up as soon as one send has failed
shouldContinueRunning_noFailure(a) == a.retryCount = 0

\* offlineTime >= CONFIG.MAX_OFFLINE_TIME
shouldContinueRunning_atLeast(a) == ~(a.offlineTime >= MAX_OFFLINE_TIME)

\* shouldContinueRunning(): false once offlineTime > CONFIG.MAX_OFFLINE_TIME
shouldContinueRunning(a) == ~(a.offlineTime > MAX_OFFLINE_TIME)

\* the end of monitorSystem without the isRunning tests
afterCycle_noRunningTest(a) ==
  IF shouldContinueRunning(a)
  THEN [a EXCEPT !.loop = [@ EXCEPT !.pc = "timer", !.wait = COLLECTION_INTERVAL]]
  ELSE [a EXCEPT !.exited = TRUE, !.exitCode = 1]

\* the end of monitorSystem: setTimeout(monitorSystem, ...), process.exit(1),
\* or nothing when isRunning is false
afterCycle(a) ==
  IF a.isRunning /\ shouldContinueRunning(a)
  THEN [a EXCEPT !.loop = [@ EXCEPT !.pc = "timer", !.wait = COLLECTION_INTERVAL]]
  ELSE IF a.isRunning
  THEN [a EXCEPT !.exited = TRUE, !.exitCode = 1]
  ELSE [a EXCEPT !.loop = [@ EXCEPT !.pc = "idle", !.wait = 0]]

(* ------------------------------- state --------------------------------- *)
VARIABLES
  clock,     \* Date.now() of the server, in milliseconds
  store,     \* the systeminfos collection, in insertion order
  pending,   \* documents whose save() is awaiting the database
  nextId,    \* _id of the next document
  get,       \* the GET /systemdata request awaiting its two reads
  resp,      \* the response res.json() is sending, NoResp when there is none
  agent      \* the process of client.js on a monitored machine

vars == <<clock, store, pending, nextId, get, resp, agent>>

NoResp ==
  [op |-> "none", status |-> 0, msg |-> "", pcId |-> Undef, hoursNum |-> 0, now |-> 0,
   latest |-> <<>>, historical |-> <<>>, overview |-> NoOverview,
   deletedCount |-> 0, id |-> 0, timestamp |-> 0]

NoGet ==
  [active |-> FALSE, pcId |-> Undef, hoursNum |-> 0, now |-> 0,
   latestDone |-> FALSE, latest |-> <<>>,
   secondDone |-> FALSE, historical |-> <<>>, overview |-> <<>>]

Init ==
  /\ clock = 0
  /\ store = <<>>
  /\ pending = {}
  /\ nextId = 1
  /\ get = NoGet
  /\ resp = NoResp
  /\ agent = AgentInit

(* ------------------------------ actions -------------------------------- *)
\* time passes; a request is answered well within one step of the clock
Tick ==
  /\ clock < MaxTicks * TickMs
  /\ pending = {} /\ ~get.active /\ resp = NoResp
  /\ clock' = clock + TickMs
  /\ UNCHANGED <<agent, store, pending, nextId, get, resp>>

\* router.post('/'): validation, new SystemInfo(...), save() up to the point
\* where the insert is sent to the database
PostBegin(b) ==
  /\ resp = NoResp
  /\ UNCHANGED <<agent, clock, store, get>>
  /\ IF missingFields(b) THEN
       /\ resp' = [NoResp EXCEPT !.op = "post", !.status = 400, !.msg = "missing", !.now = clock]
       /\ UNCHANGED <<pending, nextId>>
     ELSE IF invalidRanges(b) THEN
       /\ resp' = [NoResp EXCEPT !.op = "post", !.status = 400, !.msg = "ranges", !.now = clock]
       /\ UNCHANGED <<pending, nextId>>
     ELSE IF ~schemaValid(b) THEN
       \* save() rejects with a ValidationError: the catch block
       /\ resp' = [NoResp EXCEPT !.op = "post", !.status = 500, !.msg = "error", !.now = clock]
       /\ UNCHANGED <<pending, nextId>>
     ELSE
       /\ nextId <= MaxDocs
       /\ Cardinality(pending) < MaxInflight
       /\ pending' = pending \cup {newSystemInfo(b, nextId, clock)}
       /\ nextId' = nextId + 1
       /\ UNCHANGED resp

\* an insert that replaces the inserts still on their way
PostCommit_dropsPending(d) ==
  /\ resp = NoResp
  /\ d \in pending
  /\ pending' = {}
  /\ store' = Append(store, d)
  /\ resp' = [NoResp EXCEPT !.op = "post", !.status = 201, !.msg = "saved", !.now = clock,
                            !.pcId = Str(d.pcId), !.id = d.id, !.timestamp = d.createdAt]
  /\ UNCHANGED <<agent, clock, nextId, get>>

\* the insert succeeds: res.status(201)
PostCommit(d) ==
  /\ resp = NoResp
  /\ d \in pending
  /\ pending' = pending \ {d}
  /\ store' = Append(store, d)
  /\ resp' = [NoResp EXCEPT !.op = "post", !.status = 201, !.msg = "saved", !.now = clock,
                            !.pcId = Str(d.pcId), !.id = d.id, !.timestamp = d.createdAt]
  /\ UNCHANGED <<agent, clock, nextId, get>>

\* an insert reported as failed after the database has applied it
PostFail_stored(d) ==
  /\ resp = NoResp
  /\ d \in pending
  /\ pending' = pending \ {d}
  /\ store' = Append(store, d)
  /\ resp' = [NoResp EXCEPT !.op = "post", !.status = 500, !.msg = "error", !.now = clock]
  /\ UNCHANGED <<agent, clock, nextId, get>>

\* the insert fails: the catch block
PostFail(d) ==
  /\ resp = NoResp
  /\ d \in pending
  /\ pending' = pending \ {d}
  /\ resp' = [NoResp EXCEPT !.op = "post", !.status = 500, !.msg = "error", !.now = clock]
  /\ UNCHANGED <<agent, clock, store, nextId, get>>

\* the response of router.get('/') once both reads of Promise.all are in
GetResponse(g) ==
  IF Truthy(g.pcId)
  THEN [NoResp EXCEPT !.op = "get", !.status = 200, !.pcId = g.pcId, !.hoursNum = g.hoursNum,
                      !.now = g.now, !.latest = g.latest, !.historical = g.historical]
  ELSE [NoResp EXCEPT !.op = "get", !.status = 200, !.pcId = g.pcId, !.hoursNum = g.hoursNum,
                      !.now = g.now, !.latest = g.latest,
                      !.overview = IF g.overview = <<>> THEN NoOverview ELSE g.overview[1]]

\* router.get('/'): hours validation, then the two reads are issued
GetBegin(p, h) ==
  /\ resp = NoResp
  /\ ~get.active
  /\ UNCHANGED <<agent, clock, store, pending, nextId>>
  /\ LET hoursNum == ParseHours(h)
     IN IF hoursNum.nan \/ hoursNum.n < 1 \/ hoursNum.n > MaxHours THEN
          /\ resp' = [NoResp EXCEPT !.op = "get", !.status = 400, !.msg = "hours",
                                    !.pcId = p, !.now = clock]
          /\ UNCHANGED get
        ELSE
          /\ get' = [NoGet EXCEPT !.active = TRUE, !.pcId = p, !.hoursNum = hoursNum.n,
                                  !.now = clock]
          /\ UNCHANGED resp

\* the get record after a read, and the response when it was the last one
GetAfterRead(g) ==
  /\ UNCHANGED <<agent, clock, store, pending, nextId>>
  /\ IF g.latestDone /\ g.secondDone
     THEN get' = NoGet /\ resp' = GetResponse(g)
     ELSE get' = g /\ UNCHANGED resp

\* first read: findOne({ pcId }).sort({ createdAt: -1 }) or getLatestData()
GetReadLatest ==
  /\ resp = NoResp
  /\ get.active /\ ~get.latestDone
  /\ \E r \in (IF Truthy(get.pcId) THEN findOneLatest(store, get.pcId.s)
               ELSE getLatestData(store)) :
       GetAfterRead([get EXCEPT !.latestDone = TRUE, !.latest = r])

\* second read: getHistoricalData(pcId, hoursNum) or getOverviewStats(); both
\* took their cutoff from Date.now() when the handler called them
GetReadSecond ==
  /\ resp = NoResp
  /\ get.active /\ ~get.secondDone
  /\ IF Truthy(get.pcId)
     THEN \E r \in getHistoricalData(store, get.pcId.s, get.hoursNum, get.now) :
            GetAfterRead([get EXCEPT !.secondDone = TRUE, !.historical = r])
     ELSE GetAfterRead([get EXCEPT !.secondDone = TRUE,
                                   !.overview = getOverviewStats(store, get.now)])

\* one of the reads fails: the catch block
GetFail ==
  /\ resp = NoResp
  /\ get.active
  /\ get' = NoGet
  /\ resp' = [NoResp EXCEPT !.op = "get", !.status = 500, !.msg = "error",
                            !.pcId = get.pcId, !.now = get.now]
  /\ UNCHANGED <<agent, clock, store, pending, nextId>>

\* a listing that ends with deleteMany({})
Pcs_deleting ==
  /\ resp = NoResp
  /\ \E r \in getLatestData(store) :
       resp' = [NoResp EXCEPT !.op = "pcs", !.status = 200, !.now = clock, !.latest = r]
  /\ store' = <<>>
  /\ UNCHANGED <<agent, clock, pending, nextId, get>>

\* router.get('/pcs')
Pcs ==
  /\ resp = NoResp
  /\ \E r \in getLatestData(store) :
       resp' = [NoResp EXCEPT !.op = "pcs", !.status = 200, !.now = clock, !.latest = r]
  /\ UNCHANGED <<agent, clock, store, pending, nextId, get>>

PcsFail ==
  /\ resp = NoResp
  /\ resp' = [NoResp EXCEPT !.op = "pcs", !.status = 500, !.msg = "error", !.now = clock]
  /\ UNCHANGED <<agent, clock, store, pending, nextId, get>>

\* router.delete('/cleanup')
Cleanup(h) ==
  /\ resp = NoResp
  /\ UNCHANGED <<agent, clock, pending, nextId, get>>
  /\ LET hoursNum == ParseHours(h)
     IN IF hoursNum.nan \/ hoursNum.n < 1 THEN
          /\ resp' = [NoResp EXCEPT !.op = "cleanup", !.status = 400, !.msg = "hours",
                                    !.now = clock]
          /\ UNCHANGED store
        ELSE
          LET result == cleanupOldData(store, hoursNum.n, clock)
          IN IF result.threw THEN
               /\ resp' = [NoResp EXCEPT !.op = "cleanup", !.status = 500, !.msg = "error",
                                         !.hoursNum = hoursNum.n, !.now = clock]
               /\ UNCHANGED store
             ELSE
               /\ store' = result.coll
               /\ resp' = [NoResp EXCEPT !.op = "cleanup", !.status = 200,
                                         !.hoursNum = hoursNum.n, !.now = clock,
                                         !.deletedCount = result.deletedCount]

\* router.get('/health')
Health ==
  /\ resp = NoResp
  /\ resp' = [NoResp EXCEPT !.op = "health", !.status = 200, !.now = clock]
  /\ UNCHANGED <<agent, clock, store, pending, nextId, get>>

\* the response has gone out to the client
ResponseSent ==
  /\ resp # NoResp
  /\ resp' = NoResp
  /\ UNCHANGED <<agent, clock, store, pending, nextId, get>>

\* a pass that overwrites the documents it should delete
TTLExpire_overwrite ==
  /\ \E d \in Range(store) : ttlExpired(d, clock)
  /\ store' = [i \in DOMAIN store |->
                IF ttlExpired(store[i], clock)
                THEN [store[i] EXCEPT !.cpu = 0, !.createdAt = clock]
                ELSE store[i]]
  /\ UNCHANGED <<agent, clock, pending, nextId, get, resp>>

\* a pass of the TTL monitor of MongoDB
TTLExpire ==
  /\ \E d \in Range(store) : ttlExpired(d, clock)
  /\ store' = SelectSeq(store, LAMBDA d : ~ttlExpired(d, clock))
  /\ UNCHANGED <<agent, clock, pending, nextId, get, resp>>

Next ==
  \/ Tick
  \/ \E b \in Bodies : PostBegin(b)
  \/ \E d \in pending : PostCommit(d)
  \/ \E d \in pending : PostFail(d)
  \/ \E p \in PcIdParams, h \in HoursParams : GetBegin(p, h)
  \/ GetReadLatest
  \/ GetReadSecond
  \/ GetFail
  \/ Pcs
  \/ PcsFail
  \/ \E h \in HoursParams : Cleanup(h)
  \/ Health
  \/ ResponseSent
  \/ TTLExpire

Spec == Init /\ [][Next]_vars

\* the writers of the store, the TTL monitor and the all-PCs read with its
\* default hours
LiveNext ==
  \/ Tick
  \/ \E b \in Bodies : PostBegin(b)
  \/ \E d \in pending : PostCommit(d)
  \/ \E d \in pending : PostFail(d)
  \/ GetBegin(Undef, Undef)
  \/ GetReadLatest
  \/ GetReadSecond
  \/ \E h \in HoursParams : Cleanup(h)
  \/ ResponseSent
  \/ TTLExpire

\* the TTL monitor is a background thread of the database that runs a pass
\* every minute for as long as the database runs
FairSpec == Init /\ [][LiveNext]_vars /\ WF_vars(TTLExpire)

\* the collector as the agent sees it: nothing of it changes in a step of the
\* agent, whose requests are answered by a status
CollectorIdle == UNCHANGED <<clock, store, pending, nextId, get, resp>>

\* the waits of what the agent awaits
AgentWaiting ==
  {agent.loop.wait : x \in {y \in {1} : agent.loop.pc \in {"sampling", "posting", "delay", "timer"}}}
    \cup {agent.final.wait : x \in {y \in {1} : agent.final.pc \in {"posting", "delay"}}}

\* the collector answers 201 only while it is there
StatusPossible(st) == st = 201 => ~agent.serverDown

\* startClient(): the health check, the signal handlers, isRunning = true and
\* the first call of monitorSystem up to its await of getSystemInfo
StartClient ==
  /\ ~agent.exited /\ agent.loop.pc = "init"
  /\ agent' = [agent EXCEPT !.isRunning = TRUE,
                            !.loop = [@ EXCEPT !.pc = "sampling", !.wait = 0]]
  /\ CollectorIdle

\* getSystemInfo resolves: systemInfo = currentData, and sendDataToServer up
\* to the await of its first attempt
GetSystemInfoDone(d) ==
  /\ ~agent.exited /\ agent.loop.pc = "sampling" /\ agent.loop.wait = 0
  /\ agent' = [agent EXCEPT !.systemInfo = freshSample(agent),
                            !.delivered = [@ EXCEPT ![freshSample(agent)] =
                                             IF freshSample(agent) # agent.systemInfo
                                             THEN 0 ELSE @],
                            !.loop = postIssued([@ EXCEPT !.last = 0], freshSample(agent), 1, d)]
  /\ CollectorIdle

\* getSystemInfo rejects: the catch block of monitorSystem, then its end
GetSystemInfoFail ==
  /\ ~agent.exited /\ agent.loop.pc = "sampling" /\ agent.loop.wait = 0
  /\ agent' = afterCycle(agent)
  /\ CollectorIdle

\* an attempt of the monitoring cycle is answered; when sendDataToServer
\* returns, monitorSystem runs to its end
LoopAnswered(st) ==
  /\ ~agent.exited /\ agent.loop.pc = "posting" /\ agent.loop.wait = 0
  /\ StatusPossible(st)
  /\ LET a == answered(agent, "loop", st)
     IN agent' = IF a.loop.pc = "done" THEN afterCycle(a) ELSE a
  /\ CollectorIdle

\* the retry timer of the monitoring cycle fires: the next attempt
LoopRetry(d) ==
  /\ ~agent.exited /\ agent.loop.pc = "delay" /\ agent.loop.wait = 0
  /\ agent' = [agent EXCEPT !.loop = postIssued(@, @.sample, @.attempt + 1, d)]
  /\ CollectorIdle

\* setTimeout(monitorSystem, CONFIG.COLLECTION_INTERVAL) fires: if (!isRunning)
\* return, else the await of getSystemInfo
TimerFires ==
  /\ ~agent.exited /\ agent.loop.pc = "timer" /\ agent.loop.wait = 0
  /\ agent' = [agent EXCEPT !.loop = IF agent.isRunning
                                     THEN [NoSend EXCEPT !.pc = "sampling"]
                                     ELSE [NoSend EXCEPT !.pc = "idle"]]
  /\ CollectorIdle

\* gracefulShutdown(signal), on the first SIGINT, SIGTERM or SIGUSR2
GracefulShutdown(d) ==
  /\ ~agent.exited /\ agent.isRunning
  /\ agent' = IF agent.systemInfo # 0
              THEN [agent EXCEPT !.isRunning = FALSE,
                                 !.final = postIssued(NoSend, agent.systemInfo, 1, d)]
              ELSE [agent EXCEPT !.isRunning = FALSE, !.exited = TRUE, !.exitCode = 0]
  /\ CollectorIdle

\* an attempt of the final send is answered; when sendDataToServer returns,
\* process.exit(0)
FinalAnswered(st) ==
  /\ ~agent.exited /\ agent.final.pc = "posting" /\ agent.final.wait = 0
  /\ StatusPossible(st)
  /\ LET a == answered(agent, "final", st)
     IN agent' = IF a.final.pc = "done" THEN [a EXCEPT !.exited = TRUE, !.exitCode = 0] ELSE a
  /\ CollectorIdle

\* the retry timer of the final send fires
FinalRetry(d) ==
  /\ ~agent.exited /\ agent.final.pc = "delay" /\ agent.final.wait = 0
  /\ agent' = [agent EXCEPT !.final = postIssued(@, @.sample, @.attempt + 1, d)]
  /\ CollectorIdle

\* the event loop is idle until the next timer or answer is due: time passes
AgentWaits ==
  /\ ~agent.exited
  /\ AgentWaiting # {} /\ \A w \in AgentWaiting : w > 0
  /\ LET elapsed == CHOOSE w \in AgentWaiting : \A u \in AgentWaiting : w <= u
     IN agent' = [agent EXCEPT
          !.offlineTime = @ + elapsed,
          !.loop = IF @.pc \in {"posting", "delay", "timer"}
                   THEN [@ EXCEPT !.wait = @ - elapsed] ELSE @,
          !.final = IF @.pc \in {"posting", "delay"}
                    THEN [@ EXCEPT !.wait = @ - elapsed] ELSE @]
  /\ CollectorIdle

\* the collector becomes unreachable and stays so
ServerGoesDown ==
  /\ ~agent.exited /\ ~agent.serverDown
  /\ agent' = [agent EXCEPT !.serverDown = TRUE]
  /\ CollectorIdle

\* the steps of the process of client.js
AgentStep ==
  \/ StartClient
  \/ \E d \in Durations : GetSystemInfoDone(d)
  \/ GetSystemInfoFail
  \/ \E st \in Statuses : LoopAnswered(st)
  \/ \E d \in Durations : LoopRetry(d)
  \/ TimerFires
  \/ \E st \in Statuses : FinalAnswered(st)
  \/ \E d \in Durations : FinalRetry(d)
  \/ AgentWaits

AgentNext ==
  \/ AgentStep
  \/ \E d \in Durations : GracefulShutdown(d)
  \/ ServerGoesDown

AgentSpec == Init /\ [][AgentNext]_vars

\* the event loop of Node runs what is due, requests end within their timeout
\* and getSystemInfo settles
AgentFairSpec == Init /\ [][AgentNext]_vars /\ WF_vars(AgentStep)

\* the ingestion path on its own: POST /systemdata from its validation to its
\* answer, the clock, the TTL monitor and the listing of the machines
IngestNext ==
  \/ Tick
  \/ \E b \in Bodies : PostBegin(b)
  \/ \E d \in pending : PostCommit(d)
  \/ \E d \in pending : PostFail(d)
  \/ Pcs
  \/ ResponseSent
  \/ TTLExpire

IngestSpec == Init /\ [][IngestNext]_vars

(* ------------------------------ claims --------------------------------- *)
\* the step in which the first read of the GET request in flight is answered
LatestReadStep ==
  /\ get.active /\ ~get.latestDone
  /\ IF get'.active THEN get'.latestDone ELSE resp'.op = "get" /\ resp'.status = 200

LatestReadNext == IF get'.active THEN get'.latest ELSE resp'.latest

\* the step in which the second read of the GET request in flight is answered
SecondReadStep ==
  /\ get.active /\ ~get.secondDone
  /\ IF get'.active THEN get'.secondDone ELSE resp'.op = "get" /\ resp'.status = 200

HistoricalReadNext == IF get'.active THEN get'.historical ELSE resp'.historical

\* the overview the response will carry, after the || fallback
OverviewNext ==
  IF get'.active
  THEN (IF get'.overview = <<>> THEN NoOverview ELSE get'.overview[1])
  ELSE resp'.overview

\* the step that answers a request on route op
Answers(op) == resp = NoResp /\ resp'.op = op

AllPcsOk(r) == r.op = "get" /\ r.status = 200 /\ ~Truthy(r.pcId)
OnePcOk(r) == r.op = "get" /\ r.status = 200 /\ Truthy(r.pcId)

Window(coll, now, ms) == {d \in Range(coll) : d.createdAt >= now - ms}

\* C1: every persisted Sample, and every Sample on its way to the store, has
\* cpu, ram and disk within [0,100], uptime >= 0 and a non-empty pcId and os
C1_StoredSamplesInRange ==
  \A d \in Range(store) \cup pending :
    /\ d.cpu >= 0 /\ d.cpu <= MaxPercent * Hundredths
    /\ d.ram >= 0 /\ d.ram <= MaxPercent * Hundredths
    /\ d.disk >= 0 /\ d.disk <= MaxPercent * Hundredths
    /\ d.uptime >= 0
    /\ d.pcId # "" /\ d.os # ""

\* a request out of range was just rejected while the store holds a Sample
\* with the boundary values 0 and 100
C1_Witness ==
  /\ resp.op = "post" /\ resp.status = 400 /\ resp.msg = "ranges"
  /\ \E d \in Range(store) : d.ram = 0 /\ d.disk = MaxPercent * Hundredths

LatestPerMachine(q, coll) ==
  /\ {q[i].pcId : i \in 1..Len(q)} = {d.pcId : d \in Range(coll)}
  /\ Len(q) = Cardinality({d.pcId : d \in Range(coll)})
  /\ \A i \in 1..Len(q) :
       /\ q[i] \in Range(coll)
       /\ \A d \in Range(coll) : d.pcId = q[i].pcId => d.createdAt <= q[i].createdAt

\* C3: getLatestData, as read by GET /systemdata without pcId and by GET
\* /systemdata/pcs, returns exactly one entry per distinct pcId of the store,
\* each a stored Sample with the greatest createdAt of its machine
C3_LatestPerMachine ==
  [][/\ (Answers("pcs") /\ resp'.status = 200) => LatestPerMachine(resp'.latest, store)
     /\ (LatestReadStep /\ ~Truthy(get.pcId)) => LatestPerMachine(LatestReadNext, store)]_vars

\* GET /pcs answered with the newer of two Samples of one machine
C3_Witness ==
  /\ resp.op = "pcs" /\ resp.status = 200 /\ Len(resp.latest) = 1
  /\ \E d \in Range(store) :
       d.pcId = resp.latest[1].pcId /\ d.createdAt < resp.latest[1].createdAt

\* C4: getHistoricalData(pcId, h) returns exactly the stored Samples of pcId
\* with createdAt >= now - h hours, each once, in ascending createdAt order
\* (the empty sequence when there is none)
C4_HistoryExactAscending ==
  [][(SecondReadStep /\ Truthy(get.pcId)) =>
       LET q == HistoricalReadNext
           want == {d \in Window(store, get.now, get.hoursNum * HourMs) : d.pcId = get.pcId.s}
       IN /\ Range(q) = want
          /\ Len(q) = Cardinality(want)
          /\ \A i \in 1..(Len(q) - 1) : q[i].createdAt <= q[i + 1].createdAt]_vars

\* a history that leaves out a stored Sample of the machine older than h hours
C4_Witness ==
  /\ OnePcOk(resp) /\ Len(resp.historical) = 1
  /\ \E d \in Range(store) :
       /\ d.pcId = resp.pcId.s
       /\ d.createdAt < resp.now - resp.hoursNum * HourMs
       /\ resp.historical[1] \in Range(store) \ {d}

\* the overview of a set of documents: the means in hundredths, the number of
\* machines; the fallback of the route when the set is empty
MeanOf(W, f) == RoundHalfEven(SumOf(W, f), Cardinality(W))

StatsOver(W) ==
  IF W = {} THEN NoOverview
  ELSE [avgCpu |-> MeanOf(W, "cpu"), avgRam |-> MeanOf(W, "ram"),
        avgDisk |-> MeanOf(W, "disk"), totalPCs |-> Cardinality({d.pcId : d \in W})]

\* C5 as stated: the overview of GET /systemdata?hours=h is computed over
\* exactly the Samples with createdAt >= now - h hours
C5_OverviewOverHoursWindow ==
  [][(SecondReadStep /\ ~Truthy(get.pcId)) =>
       OverviewNext = StatsOver(Window(store, get.now, get.hoursNum * HourMs))]_vars

\* C5 as amended: the overview is computed over exactly the Samples with
\* createdAt >= now - 24 hours, whatever hours the request carries
C5_OverviewOverDayWindow ==
  [][(SecondReadStep /\ ~Truthy(get.pcId)) =>
       OverviewNext = StatsOver(Window(store, get.now, OverviewWindowMs))]_vars

\* a request for hours = 1 whose overview counts a machine although every
\* stored Sample is older than one hour
C5_Witness ==
  /\ AllPcsOk(resp) /\ resp.hoursNum = 1
  /\ resp.overview.totalPCs > 0
  /\ store # <<>>
  /\ \A d \in Range(store) : resp.now - d.createdAt > HourMs

\* avg is the mean of field f over W exactly
ExactMean(avg, W, f) == avg * Cardinality(W) = SumOf(W, f)

\* avg is the mean of field f over W to the nearest hundredth
NearestMean(avg, W, f) ==
  LET diff == avg * Cardinality(W) - SumOf(W, f)
  IN 2 * diff <= Cardinality(W) /\ -2 * diff <= Cardinality(W)

\* C6 as stated: avgCpu, avgRam and avgDisk are the arithmetic means over the
\* Samples in the window, totalPCs the number of distinct machines, all 0 when
\* the window is empty
C6_OverviewExactMeans ==
  [][(SecondReadStep /\ ~Truthy(get.pcId)) =>
       LET W == Window(store, get.now, OverviewWindowMs)
           o == OverviewNext
       IN /\ W = {} => o = NoOverview
          /\ W # {} => /\ ExactMean(o.avgCpu, W, "cpu")
                       /\ ExactMean(o.avgRam, W, "ram")
                       /\ ExactMean(o.avgDisk, W, "disk")
                       /\ o.totalPCs = Cardinality({d.pcId : d \in W})]_vars

\* C6 as amended: the averages are the arithmetic means rounded to two decimal
\* places
C6_OverviewRoundedMeans ==
  [][(SecondReadStep /\ ~Truthy(get.pcId)) =>
       LET W == Window(store, get.now, OverviewWindowMs)
           o == OverviewNext
       IN /\ W = {} => o = NoOverview
          /\ W # {} => /\ NearestMean(o.avgCpu, W, "cpu")
                       /\ NearestMean(o.avgRam, W, "ram")
                       /\ NearestMean(o.avgDisk, W, "disk")
                       /\ o.totalPCs = Cardinality({d.pcId : d \in W})]_vars

\* an overview over the Samples of two machines whose mean cpu has a third
\* decimal
C6_Witness ==
  /\ AllPcsOk(resp) /\ Len(store) = 2
  /\ \A d \in Range(store) : d.createdAt >= resp.now - OverviewWindowMs
  /\ resp.overview.totalPCs = 2
  /\ 2 * resp.overview.avgCpu # store[1].cpu + store[2].cpu

\* C7: latest of GET /systemdata?pcId=m is the stored Sample of m with the
\* greatest createdAt, whatever hours is, and null exactly when the store
\* holds no Sample of m
C7_LatestOfMachine ==
  [][(LatestReadStep /\ Truthy(get.pcId)) =>
       LET r == LatestReadNext
           mine == {d \in Range(store) : d.pcId = get.pcId.s}
       IN /\ r = <<>> <=> mine = {}
          /\ r # <<>> => /\ Len(r) = 1
                         /\ r[1] \in mine
                         /\ \A d \in mine : d.createdAt <= r[1].createdAt]_vars

\* latest is older than h hours and the history is empty
C7_Witness ==
  /\ OnePcOk(resp) /\ Len(resp.latest) = 1 /\ resp.historical = <<>>
  /\ resp.now - resp.latest[1].createdAt > resp.hoursNum * HourMs

\* C8: DELETE /systemdata/cleanup with a valid hours = h answers 200, removes
\* exactly the Samples with createdAt < now - h hours and returns their number
C8_CleanupRemovesOld ==
  [][(Answers("cleanup") /\ resp'.status # 400) =>
       LET kept == SelectSeq(store, LAMBDA d : d.createdAt >= clock - resp'.hoursNum * HourMs)
       IN /\ resp'.status = 200
          /\ store' = kept
          /\ resp'.deletedCount = Len(store) - Len(kept)]_vars

\* C9: a purge removes no Sample whose createdAt is within its hours window,
\* and no Sample that is being appended while it runs
C9_PurgeKeepsWindow ==
  [][Answers("cleanup") =>
       /\ \A d \in Window(store, clock, resp'.hoursNum * HourMs) : d \in Range(store')
       /\ pending' = pending]_vars

\* a purge with valid hours ran while a Sample was being appended and the
\* store held a Sample within the window
C9_Witness ==
  /\ resp.op = "cleanup" /\ resp.status # 400
  /\ pending # {}
  /\ Window(store, clock, resp.hoursNum * HourMs) # {}

\* the stored Sample with _id id is older than the retention window
Overdue(id) == \E d \in Range(store) : d.id = id /\ clock - d.createdAt > ExpireAfterMs

\* C10: a stored Sample whose age exceeds the 24-hour retention window is
\* eventually deleted by the TTL monitor, with no operator action
C10_ExpiredEventuallyDeleted ==
  \A id \in 1..MaxDocs : Overdue(id) ~> (\A d \in Range(store) : d.id # id)

\* a Sample that a read returned while its age exceeded the retention window
\* is no longer in the store
C10_Witness ==
  /\ get.active /\ get.latestDone /\ get.latest # <<>>
  /\ \A i \in 1..Len(get.latest) :
       /\ get.now - get.latest[i].createdAt > ExpireAfterMs
       /\ get.latest[i] \notin Range(store)

\* every machine with a stored Sample has an entry in q
CoversMachines(q, coll) ==
  \A d \in Range(coll) : \E i \in 1..Len(q) : q[i].pcId = d.pcId

\* C11: POST requests processed concurrently lose no write: each request
\* whose insert the database accepts is answered 201 and adds exactly its own
\* Sample, leaving the inserts still in flight and the stored Samples alone; a
\* request in flight ends only in its own answer; nothing else adds a Sample;
\* and a latest-per-machine query has an entry for every stored machine
C11_ConcurrentPostsAllStored ==
  [][/\ (Answers("post") /\ resp'.status = 201) =>
          \E d \in pending : /\ d.id = resp'.id
                              /\ resp'.pcId = Str(d.pcId)
                              /\ store' = Append(store, d)
                              /\ pending' = pending \ {d}
     /\ \A d \in pending \ pending' :
          /\ Answers("post")
          /\ pending' = pending \ {d}
          /\ resp'.status = 201 \/ (resp'.status = 500 /\ store' = store)
     /\ Len(store') > Len(store) => (Answers("post") /\ resp'.status = 201)
     /\ (Answers("pcs") /\ resp'.status = 200) => CoversMachines(resp'.latest, store)
     /\ (LatestReadStep /\ ~Truthy(get.pcId)) => CoversMachines(LatestReadNext, store)]_vars

\* two requests of different machines were in flight together, their inserts
\* completed in the reverse order, and GET /pcs lists both machines
C11_Witness ==
  /\ resp.op = "pcs" /\ resp.status = 200
  /\ Len(store) = 2 /\ store[1].id > store[2].id
  /\ store[1].pcId # store[2].pcId
  /\ {resp.latest[i].pcId : i \in 1..Len(resp.latest)} = {store[1].pcId, store[2].pcId}

\* a step in which router.post('/') ran up to its answer or up to its insert
PostHandlerStep ==
  /\ resp = NoResp /\ store' = store
  /\ resp'.op = "post" \/ Cardinality(pending') > Cardinality(pending)

\* the body has no property f
Absent(v) == v.k = "undefined"

\* the body lacks one of the six fields, or its pcId or os is the empty string
LacksField(b) ==
  \/ Absent(b.pcId) \/ b.pcId = Str("")
  \/ Absent(b.cpu) \/ Absent(b.ram) \/ Absent(b.disk)
  \/ Absent(b.os) \/ b.os = Str("")
  \/ Absent(b.uptime)

\* C12: a POST whose body lacks pcId, cpu, ram, disk, os or uptime, or has an
\* empty pcId or os, is answered 400 with the missing-fields message and
\* changes nothing; a body that lacks none of them (a 0 for cpu, ram, disk or
\* uptime included) never gets the missing-fields message
C12_MissingFieldsRejected ==
  [][PostHandlerStep => \A b \in Bodies : PostBegin(b) =>
       /\ LacksField(b) => /\ resp'.op = "post" /\ resp'.status = 400
                           /\ resp'.msg = "missing"
                           /\ store' = store /\ pending' = pending
       /\ ~LacksField(b) => resp'.msg # "missing"]_vars

\* a request was rejected for a missing field while the store holds a Sample
\* whose ram and uptime are 0
C12_Witness ==
  /\ resp.op = "post" /\ resp.status = 400 /\ resp.msg = "missing"
  /\ \E d \in Range(store) : d.ram = 0 /\ d.uptime = 0

\* all six fields are there, the four measurements as numbers, pcId and os
\* with at least one character that is not a blank
PresentNumeric(b) ==
  /\ b.pcId.k = "string" /\ Trim(b.pcId.s) # ""
  /\ b.os.k = "string" /\ Trim(b.os.s) # ""
  /\ \A f \in {"cpu", "ram", "disk", "uptime"} : b[f].k = "number"

InRange(b) ==
  /\ \A f \in {"cpu", "ram", "disk"} : b[f].n >= 0 /\ b[f].n <= MaxPercent * Hundredths
  /\ b.uptime.n >= 0

\* C13: a POST with all fields present and numeric is accepted, and its one
\* Sample goes to the database, exactly when cpu, ram and disk are in [0,100]
\* and uptime >= 0; otherwise it is answered 400 with the out-of-range message
\* and changes nothing.  An accepted request is answered 201 with its Sample
\* appended, unless the database fails the insert.
C13_RangeDecidesAcceptance ==
  [][/\ PostHandlerStep => \A b \in Bodies : (PresentNumeric(b) /\ PostBegin(b)) =>
          IF InRange(b)
          THEN /\ resp' = NoResp /\ store' = store
               /\ \E d \in pending' \ pending :
                    /\ pending' = pending \cup {d}
                    /\ d.pcId = Trim(b.pcId.s) /\ d.os = b.os.s
                    /\ \A f \in {"cpu", "ram", "disk", "uptime"} : d[f] = b[f].n
          ELSE /\ resp'.op = "post" /\ resp'.status = 400 /\ resp'.msg = "ranges"
               /\ store' = store /\ pending' = pending
     /\ \A d \in pending \ pending' :
          \/ resp'.status = 201 /\ store' = Append(store, d)
          \/ resp'.status = 500 /\ store' = store]_vars

\* the request that was just answered 201 stored a Sample with ram 0 and
\* disk 100
C13_Witness ==
  /\ resp.op = "post" /\ resp.status = 201
  /\ \E d \in Range(store) :
       d.id = resp.id /\ d.ram = 0 /\ d.disk = MaxPercent * Hundredths

\* a measurement that is there but is not a number and does not read as one
NotANumber(v) ==
  \/ v.k = "null"
  \/ v.k = "string" /\ (v.s = "" \/ StrToNum(v.s).nan)

\* the route's two checks pass, but a measurement is not a number or the pcId
\* is only blanks
MalformedInput(b) ==
  /\ ~LacksField(b)
  /\ \/ b.pcId.k = "string" /\ b.pcId.s # "" /\ Trim(b.pcId.s) = ""
     \/ \E f \in {"cpu", "ram", "disk", "uptime"} : NotANumber(b[f])

\* C14: a POST with a measurement that is not a number, or a pcId of blanks
\* only, is answered with a 4xx status and changes nothing; a 500 is the
\* answer only to a request whose insert the database failed
C14_MalformedInputIs4xx ==
  [][/\ PostHandlerStep => \A b \in Bodies : (MalformedInput(b) /\ PostBegin(b)) =>
          /\ resp'.op = "post" /\ resp'.status >= 400 /\ resp'.status <= 499
          /\ store' = store /\ pending' = pending
     /\ (Answers("post") /\ resp'.status = 500) => pending' # pending]_vars

\* the number a query parameter denotes, NaN when it denotes none
HoursDenoted(h) == IF h.k = "string" THEN StrToNum(h.s) ELSE NaN

\* the parameter is a whole number from lo to hi
HoursWithin(h, lo, hi) ==
  LET x == HoursDenoted(h)
  IN ~x.nan /\ x.n % Hundredths = 0 /\ x.n >= lo * Hundredths /\ x.n <= hi * Hundredths

\* the parameter is not a number, or a number below lo or above hi
HoursOutside(h, lo, hi) ==
  LET x == HoursDenoted(h)
  IN x.nan \/ x.n < lo * Hundredths \/ x.n > hi * Hundredths

\* the parameter is a whole number from lo on
HoursFrom(h, lo) ==
  LET x == HoursDenoted(h)
  IN ~x.nan /\ x.n % Hundredths = 0 /\ x.n >= lo * Hundredths

\* the parameter is not a number, or a number below lo
HoursBelow(h, lo) ==
  LET x == HoursDenoted(h)
  IN x.nan \/ x.n < lo * Hundredths

\* C15: GET /systemdata with hours outside 1..168 or not a number, and DELETE
\* /systemdata/cleanup with hours below 1 or not a number, are answered 400
\* with no read and no write of the store; every whole hours in 1..168 (GET),
\* or from 1 on (cleanup), passes the check; an omitted hours is 24
C15_HoursValidated ==
  [][/\ (resp = NoResp /\ store' = store /\ pending' = pending) =>
          \A p \in PcIdParams, h \in HoursParams : GetBegin(p, h) =>
            /\ Absent(h) => get'.active /\ get'.hoursNum = DefaultHours
            /\ (~Absent(h) /\ HoursOutside(h, 1, MaxHours)) =>
                 /\ resp'.op = "get" /\ resp'.status = 400
                 /\ get' = get
            /\ HoursWithin(h, 1, MaxHours) =>
                 get'.active /\ get'.hoursNum * Hundredths = HoursDenoted(h).n
     /\ Answers("cleanup") =>
          \A h \in HoursParams : Cleanup(h) =>
            /\ Absent(h) => resp'.status # 400 /\ resp'.hoursNum = DefaultHours
            /\ (~Absent(h) /\ HoursBelow(h, 1)) =>
                 resp'.status = 400 /\ store' = store
            /\ HoursFrom(h, 1) =>
                 resp'.status # 400 /\ resp'.hoursNum * Hundredths = HoursDenoted(h).n]_vars

\* C16: the createdAt of a Sample is the clock of the server at the moment the
\* request is ingested, whatever createdAt or timestamp the body carries: a
\* body with such properties is handled as the same body without them; no
\* createdAt lies in the future; the timestamp of the 201 answer is the
\* createdAt of the Sample it stored
C16_CreatedAtIsIngestionTime ==
  [][/\ \A d \in Range(store) \cup pending : d.createdAt <= clock
     /\ PostHandlerStep =>
          /\ \A d \in pending' \ pending : d.createdAt = clock
          /\ \A b \in ForgedBodies :
               PostBegin(b) <=> PostBegin(Body(b.pcId, b.cpu, b.ram, b.disk, b.os, b.uptime))
     /\ (Answers("post") /\ resp'.status = 201) =>
          \E d \in pending : /\ store' = Append(store, d)
                              /\ resp'.id = d.id
                              /\ resp'.timestamp = d.createdAt]_vars

\* the 201 answer carries the createdAt of a Sample ingested one clock step
\* after an earlier one
C16_Witness ==
  /\ resp.op = "post" /\ resp.status = 201 /\ resp.timestamp = clock /\ clock > 0
  /\ Len(store) = 2
  /\ store[2].id = resp.id /\ store[2].createdAt = resp.timestamp
  /\ store[1].createdAt < store[2].createdAt

\* C17: GET /systemdata with or without pcId, GET /systemdata/pcs and GET
\* /systemdata/health, whether they succeed or fail, change neither the stored
\* Samples nor the inserts in flight
C17_ReadsLeaveStoreAlone ==
  [][(Answers("get") \/ Answers("pcs") \/ Answers("health") \/ get' # get) =>
       store' = store /\ pending' = pending]_vars

\* a failed GET /systemdata and the store still holds its two Samples
C17_Witness ==
  /\ resp.op = "get" /\ resp.status = 500
  /\ Len(store) = 2

\* C18: a stored Sample never changes: a step leaves the store as it is, or
\* appends one Sample that was being inserted, or removes Samples and keeps
\* the others as they were and in their order; Samples are removed only by a
\* pass of the TTL monitor, past their expiry, or by a purge; no two stored
\* Samples share an _id
C18_SamplesImmutable ==
  [][/\ \A i, j \in 1..Len(store) : store[i].id = store[j].id => i = j
     /\ \A d \in Range(store') : (\E e \in Range(store) : e.id = d.id) => d \in Range(store)
     /\ \/ store' = store
        \/ \E d \in pending : store' = Append(store, d)
        \/ /\ Len(store') < Len(store)
           /\ store' = SelectSeq(store, LAMBDA d : d \in Range(store'))
           /\ \/ Answers("cleanup")
              \/ \A d \in Range(store) \ Range(store') : d.createdAt + ExpireAfterMs <= clock]_vars

\* the first Sample was deleted on expiry and the second is in the store as
\* it was inserted
C18_Witness ==
  /\ Len(store) = 1 /\ store[1].id = 2 /\ nextId = 3
  /\ store[1].createdAt = clock /\ clock > 0
  /\ pending = {}

\* the stored Samples of machine p with the greatest createdAt, when there are
\* at least two of them
Tied(coll, p) ==
  LET top == {d \in Range(coll) : /\ d.pcId = p
                                  /\ \A e \in Range(coll) : e.pcId = p => e.createdAt <= d.createdAt}
  IN IF Cardinality(top) >= 2 THEN top ELSE {}

\* the entries of q for machine p
EntriesOf(q, p) == {i \in 1..Len(q) : q[i].pcId = p}

\* the Sample of S that was inserted last
LastInserted(S) == CHOOSE d \in S : \A e \in S : e.id <= d.id

\* q has one entry for machine p and pick(Tied) allows it
TieBroken(q, coll, p, onlyLast) ==
  Tied(coll, p) # {} =>
    /\ Cardinality(EntriesOf(q, p)) = 1
    /\ \A i \in EntriesOf(q, p) :
         IF onlyLast THEN q[i] = LastInserted(Tied(coll, p)) ELSE q[i] \in Tied(coll, p)

\* the latest-per-machine reads and the per-machine latest of a step, checked
\* against the ties of the store
TieRule(onlyLast) ==
  /\ (Answers("pcs") /\ resp'.status = 200) =>
       \A d \in Range(store) : TieBroken(resp'.latest, store, d.pcId, onlyLast)
  /\ LatestReadStep =>
       \A d \in Range(store) :
         (Truthy(get.pcId) => d.pcId = get.pcId.s) =>
           TieBroken(LatestReadNext, store, d.pcId, onlyLast)

\* C19 as stated: of two stored Samples of one machine with the same
\* createdAt, latest-per-machine and the per-machine latest return the one
\* inserted later
C19_TieLaterInsertWins == [][TieRule(TRUE)]_vars

\* C19 as amended: of stored Samples of one machine that tie on the greatest
\* createdAt, latest-per-machine and the per-machine latest return exactly
\* one, either of them
C19_TieReturnsOneOfTied == [][TieRule(FALSE)]_vars

\* GET /pcs answered with the Sample inserted first of two that tie
C19_Witness ==
  /\ resp.op = "pcs" /\ resp.status = 200
  /\ Len(store) = 2 /\ Len(resp.latest) = 1
  /\ store[1].pcId = store[2].pcId /\ store[1].createdAt = store[2].createdAt
  /\ store[1].id < store[2].id
  /\ resp.latest[1] = store[1]

\* no machine of coll has two Samples that tie on its greatest createdAt
NoTies(coll) == \A d \in Range(coll) : Tied(coll, d.pcId) = {}

\* q and r list the same machines, and the same Samples when nothing ties
SameEntries(q, r, coll) ==
  /\ Len(q) = Len(r)
  /\ {q[i].pcId : i \in 1..Len(q)} = {r[i].pcId : i \in 1..Len(r)}
  /\ NoTies(coll) => Range(q) = Range(r)

\* C20 as stated: every other latest-per-machine query on the same store
\* state returns the same entries in the same order
C20_LatestDeterministic ==
  [][/\ (Answers("pcs") /\ resp'.status = 200) =>
          \A r \in getLatestData(store) : r = resp'.latest
     /\ (LatestReadStep /\ ~Truthy(get.pcId)) =>
          \A r \in getLatestData(store) : r = LatestReadNext]_vars

\* C20 as amended: every other latest-per-machine query on the same store
\* state lists the same machines, with the same Samples unless two Samples
\* of a machine tie; the order of the entries is not fixed
C20_LatestSameMachines ==
  [][/\ (Answers("pcs") /\ resp'.status = 200) =>
          \A r \in getLatestData(store) : SameEntries(r, resp'.latest, store)
     /\ (LatestReadStep /\ ~Truthy(get.pcId)) =>
          \A r \in getLatestData(store) : SameEntries(r, LatestReadNext, store)]_vars

\* GET /pcs answered with pc2 before pc1
C20_Witness ==
  /\ resp.op = "pcs" /\ resp.status = 200 /\ Len(resp.latest) = 2
  /\ resp.latest[1].pcId = "pc2" /\ resp.latest[2].pcId = "pc1"

\* C21: a request that ends in the catch block of its route is answered 500
\* and leaves the stored Samples as they were; the operation that failed is
\* dropped, not queued again; the answer goes out and the collector goes on
\* serving requests
C21_StoreFailureIs500 ==
  [][/\ (resp = NoResp /\ resp'.status = 500) =>
          /\ resp'.op \in {"post", "get", "pcs", "cleanup"} /\ resp'.msg = "error"
          /\ store' = store
          /\ pending' \subseteq pending /\ nextId' = nextId
          /\ get' = get \/ (resp'.op = "get" /\ get' = NoGet)
     /\ resp.status = 500 => ENABLED ResponseSent
     /\ resp = NoResp => ENABLED Health
     /\ (resp = NoResp /\ ~get.active) => ENABLED GetBegin(Undef, Undef)]_vars

\* a request was answered 201 after the insert of an earlier request had
\* failed
C21_Witness ==
  /\ resp.op = "post" /\ resp.status = 201
  /\ clock = 0 /\ nextId = 3 /\ Len(store) = 1 /\ pending = {}
  /\ store[1].id = 2

\* l is what the per-machine latest read returns on coll
StillLatest(l, coll, m) ==
  IF l = <<>> THEN \A d \in Range(coll) : d.pcId # m
  ELSE /\ l[1] \in Range(coll)
       /\ \A d \in Range(coll) : d.pcId = m => d.createdAt <= l[1].createdAt

\* h holds the Samples the history read returns on coll
StillHistory(h, coll, m, hours, now) ==
  Range(h) = {d \in Window(coll, now, hours * HourMs) : d.pcId = m}

\* latest is there and not older than the last Sample of a non-empty history
PairConsistent(l, h) ==
  h # <<>> => (l # <<>> /\ l[1].createdAt >= h[Len(h)].createdAt)

\* C26 as stated: in every response to GET /systemdata?pcId=m a non-empty
\* historical comes with a latest that is not null and not older than the last
\* element of historical
C26_LatestHistoricalConsistent ==
  OnePcOk(resp) => PairConsistent(resp.latest, resp.historical)

\* C26 as amended: latest and historical are consistent whenever the answer
\* of the read that came first still holds when the other read is answered
C26_ConsistentIfFirstReadHolds ==
  [][/\ (SecondReadStep /\ Truthy(get.pcId) /\ get.latestDone
           /\ StillLatest(get.latest, store, get.pcId.s)) =>
          PairConsistent(get.latest, HistoricalReadNext)
     /\ (LatestReadStep /\ Truthy(get.pcId) /\ get.secondDone
           /\ StillHistory(get.historical, store, get.pcId.s, get.hoursNum, get.now)) =>
          PairConsistent(LatestReadNext, get.historical)]_vars

\* a response whose latest is null although its historical holds a Sample
C26_Witness ==
  /\ OnePcOk(resp)
  /\ resp.historical # <<>> /\ resp.latest = <<>>

\* the overview o counts no more machines than l has entries
CountCovered(o, l) == o.totalPCs <= Len(l)

\* C27 as stated: in every response to GET /systemdata without pcId the
\* overview counts at most as many machines as latest has entries
C27_OverviewWithinLatest ==
  AllPcsOk(resp) => CountCovered(resp.overview, resp.latest)

\* C27 as amended: the overview counts at most as many machines as latest has
\* entries, and every machine it counts has an entry there, whenever the
\* answer of the read that came first still holds when the other read is
\* answered
C27_CoveredIfFirstReadHolds ==
  [][/\ (SecondReadStep /\ ~Truthy(get.pcId) /\ get.latestDone
           /\ LatestPerMachine(get.latest, store)) =>
          /\ CountCovered(OverviewNext, get.latest)
          /\ \A d \in Window(store, get.now, OverviewWindowMs) :
               \E i \in 1..Len(get.latest) : get.latest[i].pcId = d.pcId
     /\ (LatestReadStep /\ ~Truthy(get.pcId) /\ get.secondDone
           /\ (IF get.overview = <<>> THEN NoOverview ELSE get.overview[1])
                = StatsOver(Window(store, get.now, OverviewWindowMs))) =>
          /\ CountCovered(IF get.overview = <<>> THEN NoOverview ELSE get.overview[1],
                          LatestReadNext)
          /\ \A d \in Window(store, get.now, OverviewWindowMs) :
               \E i \in 1..Len(LatestReadNext) : LatestReadNext[i].pcId = d.pcId]_vars

\* a response whose overview counts more machines than latest lists
C27_Witness ==
  /\ AllPcsOk(resp)
  /\ resp.overview.totalPCs > Len(resp.latest)

(* ------------------------- the agent's claims --------------------------- *)
\* the calls of sendDataToServer there can be
Callers == {"loop", "final"}

\* the call has not returned
Sending(t) == t.pc \in {"posting", "delay"}

\* the status is one sendDataToServer takes for success
IsSuccess(st) == st = 200 \/ st = 201

\* this step is the answer of an attempt of the call of who
AnswerStep(who) ==
  /\ agent[who].pc = "posting" /\ agent[who].wait = 0
  /\ agent'[who] # agent[who]

\* this step is the firing of the retry timer of the call of who
RetryStep(who) ==
  /\ agent[who].pc = "delay" /\ agent[who].wait = 0
  /\ agent'[who] # agent[who]

\* one step of a call of sendDataToServer, as C22 has it
RetryLoopStep(who) ==
  LET t == agent[who]
      u == agent'[who]
  IN /\ Sending(t) => t.attempt \in 1..MAX_RETRIES
     /\ t.pc = "delay" => t.attempt < MAX_RETRIES
     /\ AnswerStep(who) =>
          \/ /\ IsSuccess(u.last) /\ ~Sending(u)
             /\ agent'.retryCount = 0 /\ agent'.offlineTime = 0
          \/ /\ ~IsSuccess(u.last) /\ t.attempt < MAX_RETRIES
             /\ u.pc = "delay" /\ u.wait = RETRY_DELAY * t.attempt
             /\ u.attempt = t.attempt /\ u.sample = t.sample
          \/ /\ ~IsSuccess(u.last) /\ t.attempt = MAX_RETRIES
             /\ ~Sending(u)
             /\ agent'.retryCount = agent.retryCount + 1
     /\ RetryStep(who) =>
          /\ u.pc = "posting" /\ u.attempt = t.attempt + 1 /\ u.sample = t.sample

C23_KeepsRunningWithinOfflineTime ==
  [][/\ (/\ AnswerStep("loop") /\ agent.loop.attempt = MAX_RETRIES
         /\ ~IsSuccess(agent'.loop.last)
         /\ agent.isRunning /\ agent.offlineTime <= MAX_OFFLINE_TIME) =>
          /\ ~agent'.exited
          /\ agent'.loop.pc = "timer" /\ agent'.loop.wait = COLLECTION_INTERVAL
     /\ (agent.loop.pc = "timer" /\ agent'.loop.pc # "timer" /\ agent.isRunning) =>
          agent'.loop.pc = "sampling"
     /\ (agent.loop.pc = "sampling" /\ agent'.loop.pc = "posting") =>
          /\ agent'.loop.sample # agent.systemInfo
          /\ agent'.loop.sample = agent'.systemInfo
          /\ agent'.loop.attempt = 1]_vars

\* the next cycle is scheduled after a cycle whose three attempts failed
C23_Witness ==
  /\ agent.isRunning /\ ~agent.exited
  /\ agent.loop.pc = "timer" /\ agent.loop.wait = COLLECTION_INTERVAL
  /\ agent.loop.attempt = MAX_RETRIES /\ agent.loop.last = 500
  /\ agent.retryCount >= 1

\* this step is the end of a monitoring cycle: getSystemInfo rejected, or the
\* call of sendDataToServer returned
CycleEnds ==
  /\ agent.loop.pc \in {"sampling", "posting"} /\ agent.loop.wait = 0
  /\ agent'.isRunning = agent.isRunning
  /\ agent'.loop # agent.loop \/ agent'.exited # agent.exited
  /\ ~Sending(agent'.loop)

\* this step is process.exit(1)
ExitsWithOne == ~agent.exited /\ agent'.exited /\ agent'.exitCode = 1

\* C24: the agent exits with code 1 at the end of a monitoring cycle at which
\* it runs and the time since the last successful send (or the start) exceeds
\* MAX_OFFLINE_TIME, at the end of every such cycle and in no other step; and
\* once the collector answers no request any more the running agent
\* eventually exits (with code 0 if a shutdown signal came first)
C24_FailStopAfterOfflineTime ==
  /\ [][/\ ExitsWithOne =>
             /\ CycleEnds /\ agent.isRunning
             /\ agent'.offlineTime > MAX_OFFLINE_TIME
        /\ (CycleEnds /\ agent.isRunning /\ agent'.offlineTime > MAX_OFFLINE_TIME) =>
             ExitsWithOne]_vars
  /\ (agent.serverDown /\ agent.isRunning) ~>
       (agent.exited /\ (agent.exitCode = 1 \/ ~agent.isRunning))

\* the agent has stopped with code 1 after the collector went away
C24_Witness ==
  /\ agent.exited /\ agent.exitCode = 1 /\ agent.serverDown
  /\ agent.offlineTime > MAX_OFFLINE_TIME

\* C25 as stated: after an attempt is answered 400 the agent does not send the
\* Sample again
C25_NoResendAfter400 ==
  [][\A who \in Callers :
       (AnswerStep(who) /\ agent'[who].last = 400) => ~Sending(agent'[who])]_vars

\* C25 as amended: an attempt answered 400 is a failed attempt like any other:
\* before the last attempt the agent waits and then posts the same Sample
\* again, after the last attempt the call ends
C25_400RetriedUpToMaxRetries ==
  [][\A who \in Callers :
       /\ (AnswerStep(who) /\ agent'[who].last = 400) =>
            IF agent[who].attempt < MAX_RETRIES
            THEN /\ agent'[who].pc = "delay"
                 /\ agent'[who].sample = agent[who].sample
            ELSE ~Sending(agent'[who])
       /\ (RetryStep(who) /\ agent[who].last = 400) =>
            /\ agent'[who].pc = "posting"
            /\ agent'[who].sample = agent[who].sample]_vars

\* the Sample is posted a second time after its first attempt was answered 400
C25_Witness ==
  /\ agent.loop.pc = "posting" /\ agent.loop.attempt = 2
  /\ agent.loop.last = 400

Signalled == agent.loop.pc # "init" /\ ~agent.isRunning

\* C29: once gracefulShutdown has set isRunning to false, no monitoring cycle
\* is started and none is scheduled, whatever the cycle was doing when the
\* signal came, isRunning stays false, and the agent does not exit with code 1
C29_NoCycleAfterSignal ==
  [][Signalled =>
       /\ agent'.loop.pc \in {"sampling", "timer"} => agent'.loop.pc = agent.loop.pc
       /\ agent.loop.pc = "timer" /\ agent'.loop.pc # "timer" => agent'.loop.pc = "idle"
       /\ ~agent'.isRunning
       /\ ~(agent'.exited /\ agent'.exitCode = 1)]_vars

\* a cycle that was sending when the signal came has ended, after the time
\* for which the agent gives up, without a timer for another one
C29_Witness ==
  /\ Signalled /\ ~agent.exited
  /\ agent.loop.pc = "idle" /\ agent.loop.last = 500
  /\ agent.offlineTime > MAX_OFFLINE_TIME

\* the agent with a collector that answers every POST with 201
AckedAgentNext ==
  \/ StartClient
  \/ \E d \in Durations : GetSystemInfoDone(d)
  \/ GetSystemInfoFail
  \/ LoopAnswered(201)
  \/ TimerFires
  \/ FinalAnswered(201)
  \/ AgentWaits
  \/ \E d \in Durations : GracefulShutdown(d)

AckedAgentSpec == Init /\ [][AckedAgentNext]_vars

\* C30: while every POST the agent makes is answered 201 the agent does not
\* exit with code 1
C30_NoFailStopWhileAcked == ~(agent.exited /\ agent.exitCode = 1)

====
